---------------------------- MODULE Spec2Model ----------------------------
(***************************************************************************)
(* Tic-tac-toe strategies of briot/tictactoe_rust: the bit-packed          *)
(* GameState (types.rs), the memoized exhaustive solver (alphabeta.rs),    *)
(* the random strategy (random.rs), the MCTS engine (mcts.rs) and the      *)
(* driver's turn loop (main.rs).                                           *)
(*                                                                         *)
(* A Grid (u16) is modelled as the set of the positions of its 1 bits, a   *)
(* subset of 0..15: a | b is union, a & b is intersection, !0 is 0..15,    *)
(* 1 << i is {i}.                                                          *)
(***************************************************************************)
EXTENDS Integers, FiniteSets, Sequences, TLC

\* ------------------------------------------------------------------------
\* types.rs
\* ------------------------------------------------------------------------

\* type Grid = u16: bit positions of a 16-bit word
GridBits == 0..15

\* the nine cells of the board (for current in 0..=8)
Cells == 0..8

\* !0b111111111 : the seven bits above the board
HighBits == GridBits \ Cells

\* enum Score
Player1Wins == "Player1Wins"
Player2Wins == "Player2Wins"
Draw == "Draw"
Undecided == "Undecided"
Score == {Player1Wins, Player2Wins, Draw, Undecided}

\* the 8 line constants of GameState::score, in the order of the source
Lines ==
    << {0, 1, 2}, {3, 4, 5}, {6, 7, 8}, {2, 5, 8},
       {1, 4, 7}, {0, 3, 6}, {0, 4, 8}, {2, 4, 6} >>

\* DefaultState with the bits above the board left at 0
DefaultState_ZeroHighBits ==
    [player1 |-> {}, player2 |-> {}, is_player1 |-> TRUE]

\* impl Default for GameState
DefaultState ==
    [player1 |-> HighBits, player2 |-> HighBits, is_player1 |-> TRUE]

\* perform setting the bit in the masks of both players
perform_BothMasks(state, mask) ==
    [player1 |-> state.player1 \cup mask,
     player2 |-> state.player2 \cup mask,
     is_player1 |-> ~state.is_player1]

\* GameState::perform(Action::Put { mask })
perform(state, mask) ==
    IF state.is_player1
    THEN [player1 |-> state.player1 \cup mask,
          player2 |-> state.player2,
          is_player1 |-> FALSE]
    ELSE [player1 |-> state.player1,
          player2 |-> state.player2 \cup mask,
          is_player1 |-> TRUE]

\* GameState::legal_moves: the occupied mask
legal_moves(state) == state.player1 \cup state.player2

\* self.playerN & L == L for one of the 8 lines
HasLine(grid) == \E i \in 1..8 : (grid \cap Lines[i]) = Lines[i]

\* score with the first line constant (0b000000111) left out for player 1
score_MissingLine(state) ==
    IF \E i \in 2..8 : (state.player1 \cap Lines[i]) = Lines[i]
    THEN Player1Wins
    ELSE IF HasLine(state.player2) THEN Player2Wins
    ELSE IF (state.player1 \cup state.player2) = GridBits THEN Draw
    ELSE Undecided

\* GameState::score
score(state) ==
    IF HasLine(state.player1) THEN Player1Wins
    ELSE IF HasLine(state.player2) THEN Player2Wins
    ELSE IF (state.player1 \cup state.player2) = GridBits THEN Draw
    ELSE Undecided

\* ------------------------------------------------------------------------
\* alphabeta.rs
\* ------------------------------------------------------------------------

\* a failed call (panic!("should not happen"))
Panic == "Panic"

\* StrategyAlphaBeta::default(): the empty HashMap
EmptyCache == [s \in {} |-> <<Undecided, {}>>]

\* CacheHit returning the cached outcome without the cached move
CacheHit_DropsMask(cache, state) ==
    [score |-> cache[state][1], mask |-> {}, cache |-> cache]

\* self.cache.get(state): Some(b) => return *b
CacheHit(cache, state) ==
    [score |-> cache[state][1], mask |-> cache[state][2], cache |-> cache]

\* CacheInsert storing the mask as initialised (0) instead of the best one
CacheInsert_StaleMask(cache, state, best_score, best_play_mask) ==
    [score |-> best_score, mask |-> best_play_mask,
     cache |-> (state :> <<best_score, {}>>) @@ cache]

\* self.cache.insert(*state, (best_score, best_play_mask)) and the return
\* of the pair at the end of the loop
CacheInsert(cache, state, best_score, best_play_mask) ==
    [score |-> best_score, mask |-> best_play_mask,
     cache |-> (state :> <<best_score, best_play_mask>>) @@ cache]

\* MatchArm where a draw never replaces a recorded win of the opponent
MatchArm_DrawKeepsLoss(is_player1, sc, best_score) ==
    CASE is_player1 /\ sc = Player1Wins -> "return"
      [] ~is_player1 /\ sc = Player1Wins /\ best_score = Undecided -> "adopt"
      [] is_player1 /\ sc = Player2Wins /\ best_score = Undecided -> "adopt"
      [] ~is_player1 /\ sc = Player2Wins -> "return"
      [] sc = Draw /\ best_score = Undecided -> "adopt"
      [] sc \in {Player1Wins, Player2Wins, Draw} -> "ignore"
      [] OTHER -> "panic"

\* MatchArm that keeps the first move examined, whatever comes later
MatchArm_KeepsFirst(is_player1, sc, best_score) ==
    CASE sc \in {Player1Wins, Player2Wins, Draw} /\ best_score = Undecided
           -> "adopt"
      [] sc \in {Player1Wins, Player2Wins, Draw} -> "ignore"
      [] OTHER -> "panic"

\* MatchArm where a draw also replaces a draw recorded earlier
MatchArm_DrawReplacesDraw(is_player1, sc, best_score) ==
    CASE is_player1 /\ sc = Player1Wins -> "return"
      [] ~is_player1 /\ sc = Player1Wins /\ best_score = Undecided -> "adopt"
      [] is_player1 /\ sc = Player2Wins /\ best_score = Undecided -> "adopt"
      [] ~is_player1 /\ sc = Player2Wins -> "return"
      [] sc = Draw -> "adopt"
      [] sc \in {Player1Wins, Player2Wins, Draw} -> "ignore"
      [] OTHER -> "panic"

\* the arms of match (state.is_player1, score, best_score), in source order:
\* "return" the move at once, "adopt" it as the best so far, "ignore" it,
\* or "panic"
MatchArm(is_player1, sc, best_score) ==
    CASE is_player1 /\ sc = Player1Wins -> "return"
      [] ~is_player1 /\ sc = Player1Wins /\ best_score = Undecided -> "adopt"
      [] is_player1 /\ sc = Player2Wins /\ best_score = Undecided -> "adopt"
      [] ~is_player1 /\ sc = Player2Wins -> "return"
      [] sc = Draw /\ (\/ (is_player1 /\ best_score = Player2Wins)
                       \/ (~is_player1 /\ best_score = Player1Wins)
                       \/ best_score = Undecided) -> "adopt"
      [] sc \in {Player1Wins, Player2Wins, Draw} -> "ignore"
      [] OTHER -> "panic"

RECURSIVE play_with_score(_, _)
RECURSIVE ScanCells(_, _, _, _, _, _)

\* for current in 0..=8 { ... } of play_with_score, from cell current on, and
\* the statements after the loop; returns [score, mask, cache], the cache
\* being self.cache when the call returns; a panic gives score Panic
ScanCells(cache, state, occupied, current, best_score, best_play_mask) ==
    IF current > 8
    THEN CacheInsert(cache, state, best_score, best_play_mask)
    ELSE
      LET mask == {current} IN
      IF (occupied \cap mask) # {}
      THEN ScanCells(cache, state, occupied, current + 1,
                     best_score, best_play_mask)
      ELSE
        LET next_state == perform(state, mask)
            direct == score(next_state)
            sub == IF direct = Undecided
                   THEN play_with_score(cache, next_state)
                   ELSE [score |-> direct, mask |-> {}, cache |-> cache]
            arm == MatchArm(state.is_player1, sub.score, best_score)
        IN
        CASE arm = "return" ->
               [score |-> sub.score, mask |-> mask, cache |-> sub.cache]
          [] arm = "adopt" ->
               ScanCells(sub.cache, state, occupied, current + 1,
                         sub.score, mask)
          [] arm = "ignore" ->
               ScanCells(sub.cache, state, occupied, current + 1,
                         best_score, best_play_mask)
          [] OTHER ->
               [score |-> Panic, mask |-> {}, cache |-> sub.cache]

\* StrategyAlphaBeta::play_with_score
play_with_score(cache, state) ==
    IF state \in DOMAIN cache
    THEN CacheHit(cache, state)
    ELSE ScanCells(cache, state, legal_moves(state), 0, Undecided, {})

RECURSIVE ScannedCells(_, _, _, _, _)

\* the cells for which the loop of play_with_score, from cell current on,
\* reaches the match: next_state was built by perform and its score taken
\* directly or from the recursive call
ScannedCells(cache, state, occupied, current, best_score) ==
    IF current > 8 THEN {}
    ELSE
      LET mask == {current} IN
      IF (occupied \cap mask) # {}
      THEN ScannedCells(cache, state, occupied, current + 1, best_score)
      ELSE
        LET next_state == perform(state, mask)
            direct == score(next_state)
            sub == IF direct = Undecided
                   THEN play_with_score(cache, next_state)
                   ELSE [score |-> direct, mask |-> {}, cache |-> cache]
            arm == MatchArm(state.is_player1, sub.score, best_score)
        IN
        CASE arm = "return" -> mask
          [] arm = "adopt" ->
               mask \cup ScannedCells(sub.cache, state, occupied,
                                      current + 1, sub.score)
          [] arm = "ignore" ->
               mask \cup ScannedCells(sub.cache, state, occupied,
                                      current + 1, best_score)
          [] OTHER -> mask

\* StrategyAlphaBeta::play: let (_, m) = self.play_with_score(state)
AlphaBetaPlay(cache, state) == play_with_score(cache, state)

\* ------------------------------------------------------------------------
\* random.rs
\* ------------------------------------------------------------------------

\* u16::count_zeros
count_zeros(grid) == 16 - Cardinality(grid)

RECURSIVE RandomLoop_CountsOccupied(_, _, _)

\* RandomLoop without the test of the cell being free
RandomLoop_CountsOccupied(occupied, choice, bit) ==
    IF bit > 15 THEN {}
    ELSE IF choice = 0 THEN {bit}
    ELSE RandomLoop_CountsOccupied(occupied, choice - 1, bit + 1)

RECURSIVE RandomLoop(_, _, _)

\* the loop of StrategyRandom::play: current is the bit of the mask (1 << bit);
\* current *= 2 past bit 15 overflows the u16 (no mask is returned: {})
RandomLoop(occupied, choice, bit) ==
    IF bit > 15 THEN {}
    ELSE IF (occupied \cap {bit}) = {}
         THEN IF choice = 0 THEN {bit}
              ELSE RandomLoop(occupied, choice - 1, bit + 1)
         ELSE RandomLoop(occupied, choice, bit + 1)

\* the values of rng.gen_range(0..legal.occupied.count_zeros())
RandomChoices(state) == 0..(count_zeros(legal_moves(state)) - 1)

\* StrategyRandom::play with the value drawn from the random source
RandomPlay(state, choice) == RandomLoop(legal_moves(state), choice, 0)

\* ------------------------------------------------------------------------
\* main.rs: play<Strategy1, Strategy2>(max_count, player1, player2)
\* ------------------------------------------------------------------------

\* max_count: the number of games of one run of the driver
MaxCount == 2

AlphaBeta == "AlphaBeta"
Random == "Random"

\* StrategyAlphaBeta::default() / StrategyRandom {}
NewStrategy(kind) == [kind |-> kind, cache |-> EmptyCache]

\* no call of play has returned
NoRet == [kind |-> "none", score |-> Undecided, mask |-> {}]

VARIABLES
    state,      \* let mut state: the position of the game being played
    pc,         \* "start": top of the outer loop, "turn": inner loop, "done";
                \* for single calls: "walk", "called"
    played,     \* let mut played
    play1wins,  \* let mut play1wins
    play2wins,  \* let mut play2wins
    draw,       \* let mut draw
    strat1,     \* player1: &mut Strategy1
    strat2,     \* player2: &mut Strategy2
    ret,        \* what a single call of play returned (single calls only)
    tree,       \* StrategyMCTS.tree: position -> node (its address)
    nodes,      \* the Nodes allocated (Rc<RefCell<Node>>), by address 1, 2, ..
    stack,      \* the active calls of search_one: the child_node of each
    root,       \* play: state, the position play was called on
    cur,        \* search_one: state, the position of the innermost call
    iter,       \* play: the iterations of the loop still to run
    result,     \* the result of the search_one call that returned last
    start,      \* the position the games of the MCTS instance start from
    snap,       \* history: nodes when the iteration in progress started
    path        \* history: the positions search_one went through in it

mctsVars == <<tree, nodes, stack, root, cur, iter, result, start, snap, path>>

vars ==
    <<state, pc, played, play1wins, play2wins, draw, strat1, strat2, ret,
      tree, nodes, stack, root, cur, iter, result, start, snap, path>>

\* StrategyMCTS::default(): no tree, no call of play in progress
MctsIdle ==
    /\ tree = << >>
    /\ nodes = << >>
    /\ stack = << >>
    /\ root = DefaultState
    /\ cur = DefaultState
    /\ iter = 0
    /\ result = 0
    /\ start = DefaultState
    /\ snap = << >>
    /\ path = << >>

\* the strategy on move: if state.is_player1 { player1 } else { player2 }
OnMove == IF state.is_player1 THEN strat1 ELSE strat2

\* let action = ...; state = state.perform(action); match state.score()
\* {...}; the test played >= max_count at the end of a game
Advance(mask, s1, s2) ==
    LET next == perform(state, mask)
        sc == score(next)
    IN
    /\ state' = next
    /\ strat1' = s1
    /\ strat2' = s2
    /\ play1wins' = IF sc = Player1Wins THEN play1wins + 1 ELSE play1wins
    /\ play2wins' = IF sc = Player2Wins THEN play2wins + 1 ELSE play2wins
    /\ draw' = IF sc = Draw THEN draw + 1 ELSE draw
    /\ pc' = IF sc = Undecided THEN "turn"
             ELSE IF played >= MaxCount THEN "done" ELSE "start"
    /\ UNCHANGED <<played, ret>>
    /\ UNCHANGED mctsVars

\* let mut state = GameState::default(); played += 1;
StartGame ==
    /\ pc = "start"
    /\ state' = DefaultState
    /\ played' = played + 1
    /\ pc' = "turn"
    /\ UNCHANGED <<play1wins, play2wins, draw, strat1, strat2, ret>>
    /\ UNCHANGED mctsVars

\* one turn of the inner loop, the strategy on move being the solver (a
\* panic of the solver ends the thread: no turn)
AlphaBetaTurn ==
    /\ pc = "turn"
    /\ OnMove.kind = AlphaBeta
    /\ \E r \in {AlphaBetaPlay(OnMove.cache, state)} :
       LET s == [kind |-> AlphaBeta, cache |-> r.cache] IN
       /\ r.score # Panic
       /\ IF state.is_player1
          THEN Advance(r.mask, s, strat2)
          ELSE Advance(r.mask, strat1, s)

\* one turn of the inner loop, the strategy on move being the random one
RandomTurn ==
    /\ pc = "turn"
    /\ OnMove.kind = Random
    /\ \E choice \in RandomChoices(state) :
          Advance(RandomPlay(state, choice), strat1, strat2)

\* the locals of play before the outer loop, and the two strategies of the
\* thread (main.rs builds StrategyRandom and StrategyAlphaBeta::default())
DriverInit ==
    /\ state = DefaultState
    /\ pc = "start"
    /\ played = 0
    /\ play1wins = 0
    /\ play2wins = 0
    /\ draw = 0
    /\ ret = NoRet
    /\ \E k1, k2 \in {AlphaBeta, Random} :
          strat1 = NewStrategy(k1) /\ strat2 = NewStrategy(k2)
    /\ MctsIdle

DriverNext == StartGame \/ AlphaBetaTurn \/ RandomTurn

SpecDriver == DriverInit /\ [][DriverNext]_vars

\* ------------------------------------------------------------------------
\* Single calls of play: a position is built from default() by perform with
\* legal actions; a strategy is called on it once it is not decided, and the
\* action it returns is performed.
\* ------------------------------------------------------------------------

\* state.perform(Action::Put { mask: 1 << cell }) with a cell of legal_moves
Put(cell) ==
    /\ pc = "walk"
    /\ ({cell} \cap legal_moves(state)) = {}
    /\ state' = perform(state, {cell})
    /\ UNCHANGED <<pc, played, play1wins, play2wins, draw, strat1, strat2, ret>>
    /\ UNCHANGED mctsVars

\* StrategyAlphaBeta::play on a new instance
CallAlphaBeta ==
    /\ pc = "walk"
    /\ score(state) = Undecided
    /\ \E r \in {AlphaBetaPlay(strat1.cache, state)} :
          /\ ret' = [kind |-> AlphaBeta, score |-> r.score, mask |-> r.mask]
          /\ strat1' = [kind |-> AlphaBeta, cache |-> r.cache]
    /\ pc' = "called"
    /\ UNCHANGED <<state, played, play1wins, play2wins, draw, strat2>>
    /\ UNCHANGED mctsVars

\* StrategyRandom::play
CallRandom ==
    /\ pc = "walk"
    /\ score(state) = Undecided
    /\ \E choice \in RandomChoices(state) :
          ret' = [kind |-> Random, score |-> Undecided,
                  mask |-> RandomPlay(state, choice)]
    /\ pc' = "called"
    /\ UNCHANGED <<state, played, play1wins, play2wins, draw, strat1, strat2>>
    /\ UNCHANGED mctsVars

\* state = state.perform(action) with the action returned; the next call is
\* made on a new instance
PerformReturned ==
    /\ pc = "called"
    /\ state' = perform(state, ret.mask)
    /\ strat1' = NewStrategy(AlphaBeta)
    /\ ret' = NoRet
    /\ pc' = "walk"
    /\ UNCHANGED <<played, play1wins, play2wins, draw, strat2>>
    /\ UNCHANGED mctsVars

CallInit ==
    /\ state = DefaultState
    /\ pc = "walk"
    /\ played = 0
    /\ play1wins = 0
    /\ play2wins = 0
    /\ draw = 0
    /\ ret = NoRet
    /\ strat1 = NewStrategy(AlphaBeta)
    /\ strat2 = NewStrategy(Random)
    /\ MctsIdle

CallNext ==
    \/ \E cell \in Cells : Put(cell)
    \/ CallAlphaBeta
    \/ CallRandom
    \/ PerformReturned

SpecCall == CallInit /\ [][CallNext]_vars

\* ------------------------------------------------------------------------
\* Calls of play_with_score on any position built by perform, decided or not
\* ------------------------------------------------------------------------

\* self.play_with_score(state) on a new instance
CallPlayWithScore ==
    /\ pc = "walk"
    /\ \E r \in {play_with_score(strat1.cache, state)} :
          /\ ret' = [kind |-> "play_with_score",
                     score |-> r.score, mask |-> r.mask]
          /\ strat1' = [kind |-> AlphaBeta, cache |-> r.cache]
    /\ pc' = "solved"
    /\ UNCHANGED <<state, played, play1wins, play2wins, draw, strat2>>
    /\ UNCHANGED mctsVars

\* the instance is dropped; the position is built further
DropInstance ==
    /\ pc = "solved"
    /\ strat1' = NewStrategy(AlphaBeta)
    /\ ret' = NoRet
    /\ pc' = "walk"
    /\ UNCHANGED <<state, played, play1wins, play2wins, draw, strat2>>
    /\ UNCHANGED mctsVars

SolveNext ==
    \/ \E cell \in Cells : Put(cell)
    \/ CallPlayWithScore
    \/ DropInstance

SpecSolve == CallInit /\ [][SolveNext]_vars

\* ------------------------------------------------------------------------
\* mcts.rs
\* ------------------------------------------------------------------------

\* let iterations = if self.tree.is_empty() { 30000 } else { 100 }, scaled
FirstBudget == 4
LaterBudget == 2

\* if node.borrow().visited < 5477, scaled
VisitCeiling == 3

\* the empty cells of the positions the games of the MCTS instance start from
StartEmpty == 3

\* const NOT_EXPLORED: Option<Rc<RefCell<Node>>> = None
NOT_EXPLORED == 0

\* impl Default for Node
DefaultNode ==
    [visited |-> 0, wins |-> 0, moves |-> [i \in Cells |-> NOT_EXPLORED]]

\* the UCB1 value of cell idx of node n is f32::INFINITY: the child was never
\* visited from n, or n itself has no visit
UcbInfinite(n, parent_visits, idx) ==
    \/ n.moves[idx] = NOT_EXPLORED
    \/ parent_visits = 0

\* the UCB1 value of a linked child is NaN (0/0): no comparison with it is
\* true, the child is never the best
UcbNaN(n, parent_visits, idx) ==
    /\ ~UcbInfinite(n, parent_visits, idx)
    /\ nodes[n.moves[idx]].visited = 0

\* ucb1 of child a is greater than ucb1 of child b for sure, both finite:
\*   wins/visited + 1.4 * sqrt(ln(parent_visits) / visited)
\* ln(1) = 0 leaves the win ratios; otherwise the second term decreases with
\* visited. The order of the other pairs is not decided here: either child
\* may be found greater.
UcbGreater(a, b, parent_visits) ==
    IF parent_visits = 1
    THEN a.wins * b.visited > b.wins * a.visited
    ELSE \/ a.wins * b.visited >= b.wins * a.visited /\ a.visited < b.visited
         \/ a.wins * b.visited > b.wins * a.visited /\ a.visited <= b.visited

\* SelectCells taking any free cell, whatever its ucb1
SelectCells_AnyFree(n, parent_visits, occupied) ==
    {i \in Cells : (occupied \cap {i}) = {}}

\* the values best.1 can have after the loop over the shuffled cells of
\* search_one: a free cell whose ucb1 no other free cell exceeds, any of them
\* coming first in some shuffle; 0 when no cell replaced the initial best
SelectCells(n, parent_visits, occupied) ==
    LET free == {i \in Cells : (occupied \cap {i}) = {}}
        inf == {i \in free : UcbInfinite(n, parent_visits, i)}
        fin == {i \in free : ~UcbInfinite(n, parent_visits, i)
                             /\ ~UcbNaN(n, parent_visits, i)}
        top == {i \in fin : \A j \in fin :
                   ~UcbGreater(nodes[n.moves[j]], nodes[n.moves[i]],
                               parent_visits)}
    IN IF inf # {} THEN inf
       ELSE IF top # {} THEN top
       ELSE {0}

\* TerminalResult counting a win 2 and a draw 1
TerminalResult_WinCountsDouble(current_player_is_1, sc) ==
    IF (current_player_is_1 /\ sc = Player1Wins)
       \/ (~current_player_is_1 /\ sc = Player2Wins) THEN 2
    ELSE IF sc \in {Player1Wins, Player2Wins} THEN 0
    ELSE 1

\* the result of a descent that reaches a decided position
TerminalResult(current_player_is_1, sc) ==
    IF (current_player_is_1 /\ sc = Player1Wins)
       \/ (~current_player_is_1 /\ sc = Player2Wins) THEN 1
    ELSE IF sc \in {Player1Wins, Player2Wins} THEN 0
    ELSE 1

\* Visit without the increment of visited
Visit_WinsOnly(n, r) == [n EXCEPT !.wins = @ + r]

\* c.visited += 1; c.wins += result
Visit(n, r) == [n EXCEPT !.visited = @ + 1, !.wins = @ + r]

\* IndexNew where the node put in the index is not the node that is returned
\* and linked, but a second new node
IndexNew_IndexesCopy(next_state) ==
    [id |-> Len(nodes) + 1,
     tree |-> (next_state :> (Len(nodes) + 2)) @@ tree,
     nodes |-> Append(Append(nodes, DefaultNode), DefaultNode)]

\* self.tree.get(&next_state) is None in search_one: Rc::default() is
\* inserted in the index under next_state
IndexNew(next_state) ==
    [id |-> Len(nodes) + 1,
     tree |-> (next_state :> (Len(nodes) + 1)) @@ tree,
     nodes |-> Append(nodes, DefaultNode)]

\* Iterations deciding by the position of the call being new to the index
Iterations_ByPosition ==
    IF state \notin DOMAIN tree THEN FirstBudget ELSE LaterBudget

\* play: iterations, by self.tree.is_empty()
Iterations == IF DOMAIN tree = {} THEN FirstBudget ELSE LaterBudget

\* the weight of the leading bit of the 24-bit significand of an f32
F32Hidden == 8388608

\* an f32 that is a number: man * 2^exp with F32Hidden <= |man| < 2 * F32Hidden,
\* or 0; f32::INFINITY has the exponent 1000 here
F32(man, exp) == [nan |-> FALSE, man |-> man, exp |-> exp]

\* 0.0 / 0.0
F32NaN == [nan |-> TRUE, man |-> 0, exp |-> 0]

\* the literal -1. of let mut best = (-1., 0)
F32MinusOne == F32(-F32Hidden, -23)

RECURSIVE F32Scale(_, _, _)

\* num * 2^k for the least k that makes num * 2^k / visited at least
\* F32Hidden
F32Scale(num, visited, k) ==
    IF num < F32Hidden * visited
    THEN F32Scale(2 * num, visited, k + 1)
    ELSE <<num, k>>

\* c.wins as f32 / c.visited as f32: both counters are below 2^24 and are
\* converted exactly; the quotient is rounded to the nearest f32, ties to
\* the even significand (wins <= 2 * visited here: the quotient is below
\* 2^24 before scaling)
F32Div(wins, visited) ==
    IF visited = 0
    THEN IF wins = 0 THEN F32NaN ELSE F32(F32Hidden, 1000)
    ELSE IF wins = 0 THEN F32(0, 0)
    ELSE LET s == F32Scale(wins, visited, 0)
             q == s[1] \div visited
             r == s[1] % visited
             m == IF 2 * r > visited \/ (2 * r = visited /\ q % 2 = 1)
                  THEN q + 1 ELSE q
         IN IF m = 2 * F32Hidden
            THEN F32(F32Hidden, 1 - s[2])
            ELSE F32(m, -s[2])

\* a > b on f32: false when either is NaN
F32Greater(a, b) ==
    /\ ~a.nan
    /\ ~b.nan
    /\ IF a.man > 0 /\ b.man > 0
       THEN a.exp > b.exp \/ (a.exp = b.exp /\ a.man > b.man)
       ELSE a.man > b.man

RECURSIVE BestRate_LastOfEqual(_, _, _, _)

\* BestRate replacing the best also by an equal rate (>= for >)
BestRate_LastOfEqual(n, idx, best_rate, best_idx) ==
    IF idx > 8 THEN best_idx
    ELSE IF n.moves[idx] = NOT_EXPLORED
         THEN BestRate_LastOfEqual(n, idx + 1, best_rate, best_idx)
    ELSE LET c == nodes[n.moves[idx]]
             rate == F32Div(c.wins, c.visited)
         IN
         IF ~F32Greater(best_rate, rate) /\ ~rate.nan
         THEN BestRate_LastOfEqual(n, idx + 1, rate, idx)
         ELSE BestRate_LastOfEqual(n, idx + 1, best_rate, best_idx)

RECURSIVE BestRate(_, _, _, _)

\* the loop "select the child with the highest win rate" of play, from cell
\* idx on: best = (rate, index) is replaced when rate > best.0
BestRate(n, idx, best_rate, best_idx) ==
    IF idx > 8 THEN best_idx
    ELSE IF n.moves[idx] = NOT_EXPLORED
         THEN BestRate(n, idx + 1, best_rate, best_idx)
    ELSE LET c == nodes[n.moves[idx]]
             rate == F32Div(c.wins, c.visited)
         IN
         IF F32Greater(rate, best_rate)
         THEN BestRate(n, idx + 1, rate, idx)
         ELSE BestRate(n, idx + 1, best_rate, best_idx)

\* the games of the MCTS instance: the instance is called on positions of
\* games that start from one position with StartEmpty empty cells; on each
\* turn either the instance plays or the cell is chosen otherwise

\* PlayBegin without the test of the visit ceiling: the loop always runs
PlayBegin_NoCeiling ==
    /\ pc = "turn"
    /\ score(state) = Undecided
    /\ root' = state
    /\ cur' = state
    /\ IF state \in DOMAIN tree
       THEN UNCHANGED <<tree, nodes>>
       ELSE /\ tree' = (state :> (Len(nodes) + 1)) @@ tree
            /\ nodes' = Append(nodes, DefaultNode)
    /\ iter' = Iterations
    /\ pc' = "search"
    /\ snap' = nodes'
    /\ path' = << >>
    /\ UNCHANGED <<state, played, play1wins, play2wins, draw, strat1, strat2,
                   ret, stack, result, start>>

\* StrategyMCTS::play up to the loop: the budget, the node of the position
\* (looked up or inserted), the test of the visit ceiling
PlayBegin ==
    /\ pc = "turn"
    /\ score(state) = Undecided
    /\ root' = state
    /\ cur' = state
    /\ IF state \in DOMAIN tree
       THEN /\ UNCHANGED <<tree, nodes>>
            /\ IF nodes[tree[state]].visited < VisitCeiling
               THEN iter' = Iterations /\ pc' = "search"
               ELSE iter' = 0 /\ pc' = "select"
       ELSE /\ tree' = (state :> (Len(nodes) + 1)) @@ tree
            /\ nodes' = Append(nodes, DefaultNode)
            /\ iter' = Iterations
            /\ pc' = "search"
    /\ snap' = IF pc' = "search" THEN nodes' ELSE << >>
    /\ path' = << >>
    /\ UNCHANGED <<state, played, play1wins, play2wins, draw, strat1, strat2,
                   ret, stack, result, start>>

\* search_one from its entry to the match on next_state.score(): the choice
\* of the child, its node created or found in the index and linked; then the
\* recursive call, or the result when next_state is decided. A failed
\* assertion ends the call of play ("panic").
Descend ==
    /\ pc = "search"
    /\ LET node == tree[cur]
           n == nodes[node]
       IN \E best \in SelectCells(n, n.visited, legal_moves(cur)) :
          LET next_state == perform(cur, {best})
              linked == n.moves[best] # NOT_EXPLORED
              known == next_state \in DOMAIN tree
              new == IndexNew(next_state)
              child == IF linked \/ known THEN tree[next_state] ELSE new.id
              nodes1 == IF linked \/ known THEN nodes ELSE new.nodes
              sc == score(next_state)
          IN
          IF ~linked /\ known /\ nodes[tree[next_state]].visited = 0
          THEN /\ pc' = "panic"
               /\ UNCHANGED <<tree, nodes, stack, cur, result, path>>
          ELSE /\ tree' = IF linked \/ known THEN tree ELSE new.tree
               /\ path' = Append(path, next_state)
               /\ nodes' = IF linked THEN nodes1
                           ELSE [nodes1 EXCEPT ![node].moves[best] = child]
               /\ stack' = Append(stack, child)
               /\ IF sc = Undecided
                  THEN /\ cur' = next_state
                       /\ pc' = "search"
                       /\ UNCHANGED result
                  ELSE /\ result' = TerminalResult(root.is_player1, sc)
                       /\ pc' = "backprop"
                       /\ UNCHANGED cur
    /\ UNCHANGED <<state, played, play1wins, play2wins, draw, strat1, strat2,
                   ret, root, iter, start, snap>>

\* the end of the innermost call of search_one: the counters of its
\* child_node, and the return of the result to its caller
Backprop ==
    /\ pc = "backprop"
    /\ stack # << >>
    /\ nodes' = [nodes EXCEPT ![stack[Len(stack)]] = Visit(@, result)]
    /\ stack' = SubSeq(stack, 1, Len(stack) - 1)
    /\ pc' = IF Len(stack) = 1 THEN "counted" ELSE "backprop"
    /\ UNCHANGED <<state, played, play1wins, play2wins, draw, strat1, strat2,
                   ret, tree, root, cur, iter, result, start, snap, path>>

\* RootVisit without n.visited += 1; n.wins += result
RootVisit_NoCount ==
    /\ pc = "counted"
    /\ nodes' = nodes
    /\ iter' = iter - 1
    /\ cur' = root
    /\ pc' = IF iter > 1 THEN "search" ELSE "select"
    /\ snap' = IF iter > 1 THEN nodes' ELSE << >>
    /\ path' = << >>
    /\ UNCHANGED <<state, played, play1wins, play2wins, draw, strat1, strat2,
                   ret, tree, stack, root, result, start>>

\* the loop body of play after search_one: n.visited += 1; n.wins += result
RootVisit ==
    /\ pc = "counted"
    /\ nodes' = [nodes EXCEPT ![tree[root]] = Visit(@, result)]
    /\ iter' = iter - 1
    /\ cur' = root
    /\ pc' = IF iter > 1 THEN "search" ELSE "select"
    /\ snap' = IF iter > 1 THEN nodes' ELSE << >>
    /\ path' = << >>
    /\ UNCHANGED <<state, played, play1wins, play2wins, draw, strat1, strat2,
                   ret, tree, stack, root, result, start>>

\* the selection of play and the action it returns, performed by the caller
\* as in the driver's turn
PlayEnd ==
    /\ pc = "select"
    /\ LET idx == BestRate(nodes[tree[root]], 0, F32MinusOne, 0) IN
       /\ ret' = [kind |-> "MonteCarlo", score |-> Undecided, mask |-> {idx}]
       /\ state' = perform(state, {idx})
    /\ pc' = "turn"
    /\ UNCHANGED <<played, play1wins, play2wins, draw, strat1, strat2,
                   tree, nodes, stack, root, cur, iter, result, start,
                   snap, path>>

\* a turn of the game on which the MCTS instance is not called
OtherTurn ==
    /\ pc = "turn"
    /\ score(state) = Undecided
    /\ \E cell \in Cells \ legal_moves(state) :
          state' = perform(state, {cell})
    /\ ret' = NoRet
    /\ UNCHANGED <<pc, played, play1wins, play2wins, draw, strat1, strat2,
                   tree, nodes, stack, root, cur, iter, result, start,
                   snap, path>>

\* the next game of the instance, from the same position
NextGame ==
    /\ pc = "turn"
    /\ score(state) # Undecided
    /\ played < MaxCount
    /\ state' = start
    /\ played' = played + 1
    /\ ret' = NoRet
    /\ UNCHANGED <<pc, play1wins, play2wins, draw, strat1, strat2,
                   tree, nodes, stack, root, cur, iter, result, start,
                   snap, path>>

RECURSIVE Positions(_)

\* the positions after k stones, play stopping at a decided position
Positions(k) ==
    IF k = 0 THEN {DefaultState}
    ELSE UNION {{perform(s, {c}) : c \in Cells \ legal_moves(s)} :
                  s \in {t \in Positions(k - 1) : score(t) = Undecided}}

\* the undecided positions whose empty cells are the first StartEmpty cells
StartPositions ==
    {s \in Positions(9 - StartEmpty) :
        /\ score(s) = Undecided
        /\ Cells \ legal_moves(s) = 0..(StartEmpty - 1)}

MctsInit ==
    /\ start \in StartPositions
    /\ state = start
    /\ pc = "turn"
    /\ played = 1
    /\ play1wins = 0
    /\ play2wins = 0
    /\ draw = 0
    /\ ret = NoRet
    /\ strat1 = NewStrategy(Random)
    /\ strat2 = NewStrategy(Random)
    /\ tree = << >>
    /\ nodes = << >>
    /\ stack = << >>
    /\ root = start
    /\ cur = start
    /\ iter = 0
    /\ result = 0
    /\ snap = << >>
    /\ path = << >>

MctsNext ==
    \/ PlayBegin
    \/ Descend
    \/ Backprop
    \/ RootVisit
    \/ PlayEnd
    \/ OtherTurn
    \/ NextGame

SpecMcts == MctsInit /\ [][MctsNext]_vars

\* ------------------------------------------------------------------------
\* Reference notions, independent of the code's constants
\* ------------------------------------------------------------------------

\* the 3 rows, 3 columns and 2 diagonals of the 3x3 board, cell = 3*row + col
BoardLines ==
    {{3 * r + c : c \in 0..2} : r \in 0..2}
    \cup {{3 * r + c : r \in 0..2} : c \in 0..2}
    \cup {{0, 4, 8}, {2, 4, 6}}

\* the player owns a complete line
Completed(grid) == \E line \in BoardLines : line \subseteq grid

\* the cells neither player occupies
EmptyCells(s) == {c \in Cells : c \notin s.player1 /\ c \notin s.player2}

\* the win outcome of the side to move / of the other side
MoverWins(s) == IF s.is_player1 THEN Player1Wins ELSE Player2Wins
OpponentWins(s) == IF s.is_player1 THEN Player2Wins ELSE Player1Wins

\* the outcome of a position by the rules of the game
Outcome(s) ==
    IF Completed(s.player1) THEN Player1Wins
    ELSE IF Completed(s.player2) THEN Player2Wins
    ELSE IF EmptyCells(s) = {} THEN Draw
    ELSE Undecided

RECURSIVE Minimax(_)

\* reference minimax over the full game tree: the mover prefers its own win
\* to a draw, and a draw to the opponent's win
Minimax(s) ==
    IF Outcome(s) # Undecided THEN Outcome(s)
    ELSE LET vals == {Minimax(perform(s, {c})) : c \in EmptyCells(s)} IN
         IF MoverWins(s) \in vals THEN MoverWins(s)
         ELSE IF Draw \in vals THEN Draw
         ELSE OpponentWins(s)

\* the (outcome, move) pair play_with_score returns on an instance
Returned(cache, s) ==
    LET r == play_with_score(cache, s) IN <<r.score, r.mask>>

\* ------------------------------------------------------------------------
\* Claims
\* ------------------------------------------------------------------------

BothSolvers == strat1.kind = AlphaBeta /\ strat2.kind = AlphaBeta

\* C2: solver against solver from the empty board: no position of any game
\* is a win; while a game is in progress the solver on move returns an empty
\* cell, so that each turn adds a stone and a game ends within 9 moves; every
\* game that has ended is tallied as a draw, and so are all max_count games
\* when the run is done, whatever the caches hold from earlier games.
C2_SolverVsSolverDraws ==
    BothSolvers =>
        /\ score(state) \in {Undecided, Draw}
        /\ play1wins = 0 /\ play2wins = 0
        /\ pc \in {"start", "done"} => draw = played
        /\ pc = "done" => draw = MaxCount
        /\ pc = "turn" =>
              LET r == play_with_score(OnMove.cache, state) IN
              /\ r.score # Panic
              /\ \E c \in EmptyCells(state) : r.mask = {c}

\* C2 witness: the second game between two solvers, whose caches were filled
\* by the first game, has ended with a full board scored Draw
C2_Witness ==
    /\ BothSolvers
    /\ pc = "done"
    /\ played = 2
    /\ draw = 2
    /\ score(state) = Draw
    /\ DefaultState \in DOMAIN strat1.cache

\* C3: the outcome the solver returns for a reachable undecided position is
\* the minimax value of the position; for the empty board it is Draw.
C3_OutcomeIsMinimax ==
    ret.kind = AlphaBeta =>
        /\ ret.score = Minimax(state)
        /\ state = DefaultState => ret.score = Draw

\* C3 witness: the solver was called on a position that the opponent of the
\* mover wins by force
C3_Witness ==
    /\ ret.kind = AlphaBeta
    /\ ret.score = OpponentWins(state)
    /\ Cardinality(EmptyCells(state)) >= 4

\* the cells that complete a line of the mover at once
WinningCells(s) ==
    {c \in EmptyCells(s) : score(perform(s, {c})) = MoverWins(s)}

\* C4 as stated: when the mover has a one-move win, the move the solver
\* returns is such a cell.
C4_ReturnsOneMoveWin ==
    (ret.kind = AlphaBeta /\ WinningCells(state) # {}) =>
        score(perform(state, ret.mask)) = MoverWins(state)

\* C4 as amended: when the mover has a one-move win, the solver returns the
\* mover's win as outcome and a move to an empty cell after which the
\* position is won for the mover: at once, or by force (minimax value).
C4_ReturnsWinningMove ==
    (ret.kind = AlphaBeta /\ WinningCells(state) # {}) =>
        /\ ret.score = MoverWins(state)
        /\ \E c \in EmptyCells(state) : ret.mask = {c}
        /\ Minimax(perform(state, ret.mask)) = MoverWins(state)

\* C4 witness: a one-move win exists and the solver returned a move after
\* which the game is still undecided
C4_Witness ==
    /\ ret.kind = AlphaBeta
    /\ WinningCells(state) # {}
    /\ score(perform(state, ret.mask)) = Undecided

\* C5: a call of play_with_score by an instance of the driver, whatever the
\* calls it served before (in this game and in earlier games), returns the
\* pair a new instance returns for the position, and an immediate second
\* call returns that pair again.
C5_HistoryIndependent ==
    (pc = "turn" /\ OnMove.kind = AlphaBeta) =>
        LET r == play_with_score(OnMove.cache, state) IN
        /\ <<r.score, r.mask>> = Returned(EmptyCache, state)
        /\ Returned(r.cache, state) = <<r.score, r.mask>>

\* C5 witness: in its second game the solver is called on a position its
\* cache already holds
C5_Witness ==
    /\ pc = "turn"
    /\ played = 2
    /\ OnMove.kind = AlphaBeta
    /\ state \in DOMAIN OnMove.cache
    /\ Cardinality(EmptyCells(state)) <= 6

\* C6: the mask returned by play of the solver and of the random strategy
\* (any value of the random source) on a reachable undecided position has
\* exactly one bit, of a board cell that is empty in the position.
C6_PlayReturnsLegalCell ==
    ret.kind \in {AlphaBeta, Random} =>
        /\ Cardinality(ret.mask) = 1
        /\ ret.mask \subseteq Cells
        /\ (ret.mask \cap (state.player1 \cup state.player2)) = {}

\* C6 witness: the random strategy returned the last cell, cells 0 and 1
\* being occupied and others empty
C6_Witness ==
    /\ ret.kind = Random
    /\ ret.mask = {8}
    /\ {0, 1} \subseteq (state.player1 \cup state.player2)
    /\ Cardinality(EmptyCells(state)) >= 3

\* C8: in the driver's games (play stops at the first position whose score
\* is not Undecided) score is one of the four outcomes and the two players
\* never both own a complete line.
C8_WinsExclusive ==
    /\ score(state) \in Score
    /\ ~(Completed(state.player1) /\ Completed(state.player2))
    /\ pc = "turn" => (played >= 1 => score(state) = Undecided)

\* C8 witness: player 2 owns a line in a game between random players
C8_Witness ==
    /\ strat1.kind = Random /\ strat2.kind = Random
    /\ Completed(state.player2)
    /\ score(state) = Player2Wins

\* C9 as stated: for every position built by legal actions, score is the win
\* of a player as soon as that player owns a line, Draw exactly when the
\* board is full and nobody owns a line, Undecided otherwise.
C9_ScoreAsStated ==
    /\ Completed(state.player1) => score(state) = Player1Wins
    /\ Completed(state.player2) => score(state) = Player2Wins
    /\ score(state) = Draw <=>
          (EmptyCells(state) = {} /\ ~Completed(state.player1)
                                  /\ ~Completed(state.player2))
    /\ (EmptyCells(state) # {} /\ ~Completed(state.player1)
                               /\ ~Completed(state.player2))
          => score(state) = Undecided

\* C9 as amended: score is Player1Wins as soon as player 1 owns a line (the
\* board full or not), Player2Wins as soon as player 2 owns a line and
\* player 1 owns none, Draw exactly when the board is full and nobody owns a
\* line, Undecided otherwise.
C9_ScoreByRules == score(state) = Outcome(state)

\* C9 witness: the ninth stone completed a line of player 1
C9_Witness ==
    /\ EmptyCells(state) = {}
    /\ Completed(state.player1)
    /\ ~Completed(state.player2)
    /\ score(state) = Player1Wins

\* C7: when play of the MCTS instance comes to its selection, after any
\* earlier calls on the instance, the root has a linked child with
\* visited >= 1, and the index selected is that of a linked child at a cell
\* that is empty in the position: the mask returned has one bit, of an empty
\* cell.
C7_MctsReturnsLegalCell ==
    pc = "select" =>
        LET n == nodes[tree[root]]
            idx == BestRate(n, 0, F32MinusOne, 0)
        IN
        /\ root = state
        /\ \E i \in Cells : /\ n.moves[i] # NOT_EXPLORED
                            /\ nodes[n.moves[i]].visited >= 1
        /\ n.moves[idx] # NOT_EXPLORED
        /\ nodes[n.moves[idx]].visited >= 1
        /\ idx \in EmptyCells(state)

\* C7 witness: in the second game the instance is called on a position whose
\* node reached the visit ceiling in the first game: no simulation is run
\* before the selection
C7_Witness ==
    /\ pc = "select"
    /\ played = 2
    /\ iter = 0
    /\ nodes[tree[root]].visited >= VisitCeiling
    /\ Cardinality(EmptyCells(root)) >= 2

\* C10: in every state of any sequence of play calls, also in the middle of
\* a simulation iteration, every node has wins <= visited; no step removes a
\* node, puts another node under an indexed position, or decreases the
\* visited or wins counter of a node.
C10_CountersMonotonic ==
    /\ [](\A id \in 1..Len(nodes) : nodes[id].wins <= nodes[id].visited)
    /\ [][/\ Len(nodes') >= Len(nodes)
          /\ \A s \in DOMAIN tree : s \in DOMAIN tree' /\ tree'[s] = tree[s]
          /\ \A id \in 1..Len(nodes) :
                /\ nodes'[id].visited >= nodes[id].visited
                /\ nodes'[id].wins >= nodes[id].wins]_vars

\* C10 witness: in the middle of the backpropagation of an iteration, a
\* node that was counted several times has fewer wins than visits
C10_Witness ==
    /\ pc = "backprop"
    /\ Len(stack) >= 1
    /\ \E id \in 1..Len(nodes) :
          /\ nodes[id].visited >= 2
          /\ nodes[id].wins >= 1
          /\ nodes[id].wins < nodes[id].visited

\* the indexed positions whose node has a link to node id
Parents(id) ==
    {s \in DOMAIN tree : \E i \in Cells : nodes[tree[s]].moves[i] = id}

\* C11: the index maps each position to one allocated node, and for every
\* indexed position s and every cell i whose link is set in the node of s,
\* the cell is empty in s and the linked node is the node indexed under
\* perform(s, 1 << i): all move sequences reaching a position reach one node,
\* whose counters every parent reads.
C11_LinksFollowIndex ==
    \A s \in DOMAIN tree :
        /\ tree[s] \in 1..Len(nodes)
        /\ \A i \in Cells :
              nodes[tree[s]].moves[i] # NOT_EXPLORED =>
                  /\ i \in EmptyCells(s)
                  /\ perform(s, {i}) \in DOMAIN tree
                  /\ nodes[tree[s]].moves[i] = tree[perform(s, {i})]

\* C11 witness: a node counted several times is linked from the nodes of two
\* different positions
C11_Witness ==
    \E id \in 1..Len(nodes) :
        /\ nodes[id].visited >= 2
        /\ Cardinality(Parents(id)) >= 2

\* C12: in every position built from default() by perform with actions on
\* cells that legal_moves reports free, no board cell is in the masks of both
\* players (the bits above the board are in both from default()).
C12_MasksDisjoint ==
    /\ (state.player1 \cap state.player2 \cap Cells) = {}
    /\ (state.player1 \cap state.player2) = HighBits

\* C12 witness: a full board, five stones of player 1 and four of player 2
C12_Witness ==
    /\ pc = "walk"
    /\ Cardinality(state.player1 \cap Cells) = 5
    /\ Cardinality(state.player2 \cap Cells) = 4
    /\ legal_moves(state) = GridBits

\* C13: when play_with_score returns for a position that was not in the
\* cache at entry (a new instance), the cache holds the position with the
\* pair returned, on every return path.
C13_ReturnCaches ==
    ret.kind = AlphaBeta =>
        /\ state \in DOMAIN strat1.cache
        /\ strat1.cache[state] = <<ret.score, ret.mask>>

\* the solved outcome of the position after the mover of s takes cell c: by
\* the rules when it is decided, else its minimax value
ChildOutcome(s, c) == Minimax(perform(s, {c}))

\* C14: the move the solver returns for a reachable undecided position is
\* the lowest-indexed empty cell among those whose resulting position has the
\* outcome returned for the position; that outcome is the best one for the
\* mover (own win, then draw, then win of the opponent) over the empty cells.
C14_LowestBestCell ==
    ret.kind = AlphaBeta =>
        LET same == {c \in EmptyCells(state) :
                        ChildOutcome(state, c) = ret.score}
        IN /\ same # {}
           /\ ret.mask = {CHOOSE c \in same : \A d \in same : c <= d}
           /\ \A c \in EmptyCells(state) :
                 /\ ChildOutcome(state, c) # MoverWins(state)
                       \/ ret.score = MoverWins(state)
                 /\ ChildOutcome(state, c) = Draw
                       => ret.score # OpponentWins(state)

\* C14 witness: the solver returned a draw at a cell that follows a cell
\* losing for the mover and precedes another cell that also draws
C14_Witness ==
    /\ ret.kind = AlphaBeta
    /\ ret.score = Draw
    /\ \E lo, hi \in EmptyCells(state) :
          /\ {lo} # ret.mask /\ {hi} # ret.mask
          /\ \A c \in ret.mask : lo < c /\ c < hi
          /\ ChildOutcome(state, lo) = OpponentWins(state)
          /\ ChildOutcome(state, hi) = Draw

\* the empty cells whose resulting position is solved as a win of the mover
MoverWinCells(s) ==
    {c \in EmptyCells(s) : ChildOutcome(s, c) = MoverWins(s)}

\* C15 as stated: on a cache miss every empty cell of the position is applied
\* and classified before the call returns.
C15_EveryChildScanned ==
    ret.kind = AlphaBeta =>
        ScannedCells(EmptyCache, state, legal_moves(state), 0, Undecided)
            = EmptyCells(state)

\* C15 as amended: on a cache miss the empty cells are applied and
\* classified in increasing order up to and including the first one whose
\* resulting position is solved as a win of the mover, the cells after it
\* being skipped; all of them when no cell is solved as a win of the mover.
C15_ScannedUpToFirstWin ==
    ret.kind = AlphaBeta =>
        LET scanned == ScannedCells(EmptyCache, state, legal_moves(state),
                                    0, Undecided)
            win == MoverWinCells(state)
        IN IF win = {}
           THEN scanned = EmptyCells(state)
           ELSE /\ scanned = {c \in EmptyCells(state) :
                                 \A w \in win : c <= w}
                /\ ret.mask \subseteq scanned
                /\ \A c \in scanned : \A m \in ret.mask : c <= m

\* C15 witness: the solver returned a winning cell below which a cell was
\* classified and above which an empty cell was skipped
C15_Witness ==
    /\ ret.kind = AlphaBeta
    /\ ret.score = MoverWins(state)
    /\ \E lo, hi \in EmptyCells(state) :
          /\ \A m \in ret.mask : lo < m /\ m < hi
          /\ lo \in ScannedCells(EmptyCache, state, legal_moves(state),
                                 0, Undecided)
          /\ hi \notin ScannedCells(EmptyCache, state, legal_moves(state),
                                    0, Undecided)

\* C16: a call of play_with_score on any position, a position with no empty
\* cell included, returns Player1Wins, Player2Wins or Draw, or fails; it does
\* not return Undecided and leaves no cache entry with Undecided.
C16_NeverUndecided ==
    ret.kind = "play_with_score" =>
        /\ ret.score \in {Player1Wins, Player2Wins, Draw, Panic}
        /\ \A s \in DOMAIN strat1.cache : strat1.cache[s][1] # Undecided

\* no call of search_one is active: play is between two iterations of its
\* loop, or before or after the loop
BetweenIterations ==
    /\ stack = << >>
    /\ pc \in {"turn", "search", "select"}

\* C17: the assertion of search_one never fails: when a link is set for the
\* first time to a node the index already holds, that node has visited >= 1;
\* between iterations every indexed node other than the one of the current
\* root has visited >= 1.
C17_IndexedNodesVisited ==
    /\ pc # "panic"
    /\ pc = "search" =>
          LET n == nodes[tree[cur]] IN
          \A i \in EmptyCells(cur) :
              (n.moves[i] = NOT_EXPLORED /\ perform(cur, {i}) \in DOMAIN tree)
                  => nodes[tree[perform(cur, {i})]].visited >= 1
    /\ BetweenIterations =>
          \A s \in DOMAIN tree : s # root => nodes[tree[s]].visited >= 1

\* C17 witness: a descent is at a node with an unset link at an empty cell
\* whose position is already in the index
C17_Witness ==
    /\ pc = "search"
    /\ stack # << >>
    /\ \E i \in EmptyCells(cur) :
          /\ nodes[tree[cur]].moves[i] = NOT_EXPLORED
          /\ perform(cur, {i}) \in DOMAIN tree
          /\ nodes[tree[perform(cur, {i})]].visited >= 1

\* play calls search_one on the root: an iteration of its loop starts
IterationStarts == pc = "search" /\ stack = << >>

\* C18 as stated: no iteration starts from a root whose visited count has
\* reached the ceiling.
C18_NoIterationAtCeiling ==
    IterationStarts => nodes[tree[root]].visited < VisitCeiling

\* C18 as amended: the ceiling is tested once per call of play, before the
\* loop. A call whose root has visited >= the ceiling at entry runs no
\* iteration and changes no node; a call whose root is below it starts the
\* loop, and the loop then runs until its budget is used up, whatever the
\* visited count of the root has become.
C18_CeilingTestedAtEntry ==
    /\ [](pc \in {"search", "backprop", "counted"} => iter >= 1)
    /\ [](pc = "select" => iter = 0)
    /\ [][/\ (pc = "turn" /\ pc' = "select") =>
                /\ state \in DOMAIN tree
                /\ nodes[tree[state]].visited >= VisitCeiling
                /\ nodes' = nodes /\ tree' = tree
          /\ (pc = "turn" /\ pc' = "search") =>
                /\ state \in DOMAIN tree =>
                      nodes[tree[state]].visited < VisitCeiling
                /\ iter' >= 1
          /\ pc = "counted" =>
                /\ iter' = iter - 1
                /\ pc' = IF iter' >= 1 THEN "search" ELSE "select"]_vars

\* C18 witness: an iteration starts from a root whose visited count has
\* reached the ceiling
C18_Witness ==
    /\ IterationStarts
    /\ iter >= 1
    /\ nodes[tree[root]].visited >= VisitCeiling

\* C19: the budget of a call of play whose loop runs is the large one when
\* the index is empty at entry, which is the case exactly until the first
\* call on the instance, and the small one in every later call, whether or
\* not the position of the call is in the index; the index never becomes
\* empty again.
C19_BudgetByEmptyIndex ==
    /\ [](DOMAIN tree = {} <=> Len(nodes) = 0)
    /\ [](pc \in {"search", "backprop", "counted", "select"}
              => DOMAIN tree # {})
    /\ [][/\ DOMAIN tree # {} => DOMAIN tree' # {}
          /\ (pc = "turn" /\ pc' = "search") =>
                iter' = IF DOMAIN tree = {} THEN FirstBudget
                        ELSE LaterBudget]_vars

\* C19 witness: a later call on the instance, on a position that was not in
\* the index, is about to start the first iteration of the small budget
C19_Witness ==
    /\ IterationStarts
    /\ iter = LaterBudget
    /\ nodes[tree[root]].visited = 0
    /\ tree[root] = Len(nodes)
    /\ Len(nodes) >= 4

\* the position before the k-th position of the chain of the iteration
ChainPrev(k) == IF k = 1 THEN root ELSE path[k - 1]

\* the nodes of the chain of the iteration, the root included
ChainNodes == {tree[root]} \cup {tree[path[k]] : k \in 1..Len(path)}

\* 1 iff the decided position s is a draw or won by the side to move at the
\* root
ChainResult(s) ==
    IF Outcome(s) = Draw \/ Outcome(s) = MoverWins(root) THEN 1 ELSE 0

RootLinked ==
    {i \in Cells : nodes[tree[root]].moves[i] # NOT_EXPLORED}

\* the node linked at cell i of the root
RootChild(i) == nodes[nodes[tree[root]].moves[i]]

\* wins/visited of the child at cell i is below that of the child at cell j,
\* as exact fractions / as the f32 quotients
RatioBelow(i, j) ==
    RootChild(i).wins * RootChild(j).visited
        < RootChild(j).wins * RootChild(i).visited

RateBelow(i, j) ==
    F32Greater(F32Div(RootChild(j).wins, RootChild(j).visited),
               F32Div(RootChild(i).wins, RootChild(i).visited))

\* C21: the cell play returns after its loop is the cell of a linked child
\* of the root, no linked child has a higher wins/visited, and every linked
\* child at a lower cell has a lower wins/visited. The ratios are the f32
\* quotients play compares; while every child has visited below 2^12 two
\* different ratios are different f32 values, and the same holds of the
\* exact fractions.
C21_ReturnsHighestRate ==
    (pc = "turn" /\ ret.kind = "MonteCarlo") =>
        \E idx \in RootLinked :
            /\ ret.mask = {idx}
            /\ RootChild(idx).visited >= 1
            /\ \A i \in RootLinked :
                  /\ ~RateBelow(idx, i)
                  /\ i < idx => RateBelow(i, idx)
            /\ (\A i \in RootLinked : RootChild(i).visited \in 1..4095) =>
                  \A i \in RootLinked :
                      /\ ~RatioBelow(idx, i)
                      /\ i < idx => RatioBelow(i, idx)

\* C21 witness: play returned the lower of two cells whose children have the
\* same highest ratio with different counters, a lower cell having a child
\* of lower ratio
C21_Witness ==
    /\ pc = "turn"
    /\ ret.kind = "MonteCarlo"
    /\ \E lo, idx, hi \in RootLinked :
          /\ lo < idx /\ idx < hi
          /\ ret.mask = {idx}
          /\ RatioBelow(lo, idx)
          /\ ~RatioBelow(idx, hi) /\ ~RatioBelow(hi, idx)
          /\ RootChild(idx).visited # RootChild(hi).visited

\* the empty cells of position s whose link is not set in node n
Unlinked(n, s) == {i \in EmptyCells(s) : n.moves[i] = NOT_EXPLORED}

\* C22: at every selection of search_one the cell chosen is an empty cell of
\* the position, and when the node has an empty cell whose link is not set
\* it is such a cell: a linked child is chosen again only when all the empty
\* cells of the node are linked.
C22_UnlinkedCellsFirst ==
    [][(pc = "search" /\ path' # path) =>
          \E c \in EmptyCells(cur) :
              /\ path' = Append(path, perform(cur, {c}))
              /\ Unlinked(nodes[tree[cur]], cur) # {}
                    => c \in Unlinked(nodes[tree[cur]], cur)]_vars

\* C22 witness: the first selection of an iteration was made at a root that
\* had linked children and empty cells not linked, and took one of the
\* latter
C22_Witness ==
    /\ pc \in {"search", "backprop"}
    /\ Len(path) >= 1
    /\ snap[tree[root]].visited >= 1
    /\ \E i \in EmptyCells(root) : snap[tree[root]].moves[i] # NOT_EXPLORED
    /\ \E c \in Unlinked(snap[tree[root]], root) :
          path[1] = perform(root, {c})

=============================================================================
